---- MODULE Spec2Model ----
(***************************************************************************)
(* Model of src/src/lib/webrtc.ts (class WebRTCManager): the per-remote    *)
(* Session table, the perfect-negotiation handlers, the ICE candidate      *)
(* buffer and the mute gate, for a small set of participants that talk     *)
(* through a relay.  Every async handler is cut at its awaited transport   *)
(* operations: one action runs a handler from one await to the next.       *)
(***************************************************************************)
EXTENDS Naturals, Sequences, FiniteSets, Bags, TLC

\* ------------------------------------------------------------------ bounds
MaxFail == 1        \* transport operations that may reject in one run
MaxCand == 2        \* ICE candidates the transports discover in one run
MaxConnFail == 1    \* connectivity failures the transports report in one run
MaxToggle == 1      \* toggleMic calls in one run
MaxStream == 1      \* initLocalStream calls in one run
MaxLeave == 1       \* disconnect calls in one run

\* ------------------------------------------------------- identifiers
\* Identifiers are JavaScript strings; they are modelled by their UTF-16 code
\* units so that `<` is computed as JavaScript computes it.
Alice == <<97, 108, 105, 99, 101>>
Bob == <<98, 111, 98>>
NoId == <<>>
Al == <<97, 108>>
Names == {Al, Alice, Bob}
Carl == <<99, 97, 114, 108>>

\* a < b on strings (webrtc.ts:338, 370): lexicographic on code units
RECURSIVE StrLess(_, _)
StrLess(a, b) ==
  IF b = <<>> THEN FALSE
  ELSE IF a = <<>> THEN TRUE
  ELSE IF Head(a) < Head(b) THEN TRUE
  ELSE IF Head(a) > Head(b) THEN FALSE
  ELSE StrLess(Tail(a), Tail(b))

VARIABLES
  users,   \* the participants of this run
  mgr,     \* mgr[m]: the WebRTCManager of participant m
  net,     \* bag of signaling frames the relay still has to deliver
  budget,  \* what the run may still use of each bound
  ev       \* the handler or event that made the last step

vars == <<users, mgr, net, budget, ev>>

\* ------------------------------------------------------------ data
\* PeerConnection (webrtc.ts:1-9) together with the state of its
\* RTCPeerConnection that the handlers read: signalingState, whether a
\* remoteDescription is set, the sender's track, the number of audio senders
\* and the candidates passed to addIceCandidate so far (handed).
NewSession(isPolite, gen) ==
  [gen |-> gen, isPolite |-> isPolite, makingOffer |-> FALSE,
   pending |-> <<>>, sig |-> "stable", remote |-> FALSE, local |-> FALSE,
   track |-> FALSE, senders |-> 1, handed |-> <<>>]

EmptyMap == [x \in {} |-> 0]

\* the fields of a new WebRTCManager (webrtc.ts:42-52)
NewManager(others) ==
  [myId |-> NoId, ws |-> FALSE, left |-> FALSE,
   peers |-> EmptyMap, order |-> <<>>, tasks |-> <<>>,
   stream |-> FALSE, trackEnabled |-> FALSE, isMicEnabled |-> FALSE,
   created |-> [p \in others |-> 0], open |-> [p \in others |-> {}],
   notified |-> [p \in others |-> 0]]

NoLoop == [kind |-> "none", rest |-> <<>>, seen |-> {}]

Task(k, p, g, i, arr, loop) ==
  [k |-> k, p |-> p, g |-> g, i |-> i, arr |-> arr, loop |-> loop]

Msg(type, from, to, cand) == [type |-> type, from |-> from, to |-> to, cand |-> cand]

Has(s, p) == p \in DOMAIN s.peers

\* the Session object a suspended handler holds is still the table's entry
Live(s, p, g) == Has(s, p) /\ s.peers[p].gen = g

RemoveAt(seq, i) == SubSeq(seq, 1, i - 1) \o SubSeq(seq, i + 1, Len(seq))

Without(seq, x) == SelectSeq(seq, LAMBDA y : y # x)

Restrict(f, D) == [x \in D |-> f[x]]

\* A context is a manager state with the frames the running handler has sent.
Ctx(s) == [s |-> s, out |-> EmptyBag]

Suspend(C, t) == [C EXCEPT !.s.tasks = Append(@, t)]

\* sendToSignalingServer without the readyState test of webrtc.ts:527
sendToSignalingServer_NoCheck(C, msg) ==
  [C EXCEPT !.out = @ (+) SetToBag({msg})]

\* sendToSignalingServer (webrtc.ts:526-533)
sendToSignalingServer(C, msg) ==
  IF C.s.ws THEN [C EXCEPT !.out = @ (+) SetToBag({msg})] ELSE C

\* createPeerConnection without the reuse of webrtc.ts:466-470
createPeerConnection_Replaces(s, p, isPolite) ==
  LET g == s.created[p] + 1 IN
  [s EXCEPT !.peers = (p :> NewSession(isPolite, g)) @@ @,
            !.order = IF Has(s, p) THEN @ ELSE Append(@, p),
            !.created[p] = g,
            !.open[p] = @ \cup {g}]

\* createPeerConnection (webrtc.ts:464-524)
createPeerConnection(s, p, isPolite) ==
  IF Has(s, p) THEN s
  ELSE LET g == s.created[p] + 1 IN
       [s EXCEPT !.peers = (p :> NewSession(isPolite, g)) @@ @,
                 !.order = Append(@, p),
                 !.created[p] = g,
                 !.open[p] = @ \cup {g}]

\* removePeer raising the departure notification without the test of webrtc.ts:564
removePeer_AlwaysNotifies(s, p) ==
  IF Has(s, p)
  THEN [s EXCEPT !.open[p] = @ \ {s.peers[p].gen},
                 !.peers = Restrict(@, DOMAIN @ \ {p}),
                 !.order = Without(@, p),
                 !.notified[p] = @ + 1]
  ELSE [s EXCEPT !.notified[p] = @ + 1]

\* removePeer without the close of webrtc.ts:565
removePeer_NoClose(s, p) ==
  IF Has(s, p)
  THEN [s EXCEPT !.peers = Restrict(@, DOMAIN @ \ {p}),
                 !.order = Without(@, p),
                 !.notified[p] = @ + 1]
  ELSE s

\* removePeer closing and deleting every Session of the table
removePeer_ClearsTable(s, p) ==
  IF Has(s, p)
  THEN [s EXCEPT !.open = [q \in DOMAIN @ |->
                             IF Has(s, q) THEN @[q] \ {s.peers[q].gen} ELSE @[q]],
                 !.peers = EmptyMap,
                 !.order = <<>>,
                 !.notified[p] = @ + 1]
  ELSE s

\* removePeer (webrtc.ts:562-569)
removePeer(s, p) ==
  IF Has(s, p)
  THEN [s EXCEPT !.open[p] = @ \ {s.peers[p].gen},
                 !.peers = Restrict(@, DOMAIN @ \ {p}),
                 !.order = Without(@, p),
                 !.notified[p] = @ + 1]
  ELSE s

\* attachLocalAudio (webrtc.ts:313-325) awaits replaceTrack exactly when the
\* Session exists, a local track exists and the sender carries another track
NeedsReplace(s, p) == Has(s, p) /\ s.stream /\ ~s.peers[p].track

\* attachLocalAudio attaching by addTrack (the fallback of webrtc.ts:328) where
\* the code replaces the sender's track in place
Replaced_AddsSender(s, p, g, ok) ==
  IF Live(s, p, g) /\ ok
  THEN [s EXCEPT !.peers[p].track = TRUE, !.peers[p].senders = @ + 1]
  ELSE s

\* the awaited replaceTrack of attachLocalAudio has settled (webrtc.ts:323)
Replaced(s, p, g, ok) ==
  IF Live(s, p, g) /\ ok THEN [s EXCEPT !.peers[p].track = TRUE] ELSE s

\* peer.makingOffer = v on the Session object the handler holds
SetMakingOffer(s, p, g, v) ==
  IF Live(s, p, g) THEN [s EXCEPT !.peers[p].makingOffer = v] ELSE s

\* next entry of the live Map iteration of addTracksToAllPeers (webrtc.ts:163)
Unseen(s, seen) == SelectSeq(s.order, LAMBDA p : <<p, s.peers[p].gen>> \notin seen)

RECURSIVE Continue(_, _)
RECURSIVE createOffer(_, _, _)
RECURSIVE addTracksNext(_, _)

\* createOffer from the try block on (webrtc.ts:349-351)
createOfferTry(C, p, g, loop) ==
  Suspend([C EXCEPT !.s = SetMakingOffer(@, p, g, TRUE)],
          Task("offer_create", p, g, 0, <<>>, loop))

\* createOffer up to its first await (webrtc.ts:334-351)
createOffer(C, p, loop) ==
  LET s1 == createPeerConnection(C.s, p, StrLess(C.s.myId, p))
      C1 == [C EXCEPT !.s = s1]
      peer == s1.peers[p]
  IN IF peer.makingOffer \/ peer.sig # "stable" THEN Continue(C1, loop)
     ELSE IF NeedsReplace(s1, p)
          THEN Suspend(C1, Task("co_attach", p, peer.gen, 0, <<>>, loop))
          ELSE createOfferTry(C1, p, peer.gen, loop)

\* renegotiate up to its first await (webrtc.ts:169-182)
renegotiate(C, p, g, loop) ==
  IF ~Has(C.s, p) THEN Continue(C, loop)
  ELSE IF ~Live(C.s, p, g) THEN Continue(C, loop)
  ELSE LET peer == C.s.peers[p] IN
       IF ~peer.remote \/ peer.makingOffer \/ peer.sig # "stable"
       THEN Continue(C, loop)
       ELSE Suspend([C EXCEPT !.s = SetMakingOffer(@, p, g, TRUE)],
                    Task("offer_create", p, g, 0, <<>>, loop))

\* one iteration of the loop of addTracksToAllPeers (webrtc.ts:163-166)
addTracksNext(C, seen) ==
  LET todo == Unseen(C.s, seen) IN
  IF todo = <<>> THEN C
  ELSE LET p == Head(todo)
           g == C.s.peers[p].gen
           loop == [kind |-> "tracks", rest |-> <<>>, seen |-> seen \cup {<<p, g>>}]
       IN IF NeedsReplace(C.s, p)
          THEN Suspend(C, Task("at_attach", p, g, 0, <<>>, loop))
          ELSE renegotiate(C, p, g, loop)

\* what runs when an awaited createOffer or renegotiate call returns: the next
\* iteration of the welcome loop (webrtc.ts:236-240) or of addTracksToAllPeers
Continue(C, loop) ==
  IF loop.kind = "welcome"
  THEN IF loop.rest = <<>> THEN C
       ELSE createOffer(C, Head(loop.rest), [loop EXCEPT !.rest = Tail(@)])
  ELSE IF loop.kind = "tracks" THEN addTracksNext(C, loop.seen)
  ELSE C

\* addTracksToAllPeers (webrtc.ts:157-167)
addTracksToAllPeers(C) == IF ~C.s.stream THEN C ELSE addTracksNext(C, {})

\* the drain of pendingCandidates after setRemoteDescription
\* (webrtc.ts:396-402, 434-440); k is the drain's task kind, next what follows
drainOrNext(C, p, g, k, next) ==
  LET arr == C.s.peers[p].pending IN
  IF Len(arr) > 0
  THEN Suspend([C EXCEPT !.s.peers[p].handed = Append(@, arr[1])],
               Task(k, p, g, 1, arr, NoLoop))
  ELSE next

\* handleOffer with the comparison of webrtc.ts:370 turned round
handleOffer_RoleSwapped(C, p) ==
  LET s1 == IF Has(C.s, p) THEN C.s
            ELSE createPeerConnection(C.s, p, StrLess(p, C.s.myId))
      C1 == [C EXCEPT !.s = s1]
      peer == s1.peers[p]
      offerCollision == peer.makingOffer \/ peer.sig # "stable"
      ignoreOffer == ~peer.isPolite /\ offerCollision
  IN IF ignoreOffer THEN C1
     ELSE IF NeedsReplace(s1, p)
          THEN Suspend(C1, Task("ho_attach", p, peer.gen, 0, <<>>, NoLoop))
          ELSE Suspend(C1, Task("ho_setremote", p, peer.gen, 0, <<>>, NoLoop))

\* handleOffer ignoring every colliding offer, polite or not (webrtc.ts:383)
handleOffer_NeverYields(C, p) ==
  LET s1 == IF Has(C.s, p) THEN C.s
            ELSE createPeerConnection(C.s, p, StrLess(C.s.myId, p))
      C1 == [C EXCEPT !.s = s1]
      peer == s1.peers[p]
      offerCollision == peer.makingOffer \/ peer.sig # "stable"
      ignoreOffer == offerCollision
  IN IF ignoreOffer THEN C1
     ELSE IF NeedsReplace(s1, p)
          THEN Suspend(C1, Task("ho_attach", p, peer.gen, 0, <<>>, NoLoop))
          ELSE Suspend(C1, Task("ho_setremote", p, peer.gen, 0, <<>>, NoLoop))

\* handleOffer up to its first await (webrtc.ts:366-393)
handleOffer(C, p) ==
  LET s1 == IF Has(C.s, p) THEN C.s
            ELSE createPeerConnection(C.s, p, StrLess(C.s.myId, p))
      C1 == [C EXCEPT !.s = s1]
      peer == s1.peers[p]
      offerCollision == peer.makingOffer \/ peer.sig # "stable"
      ignoreOffer == ~peer.isPolite /\ offerCollision
  IN IF ignoreOffer THEN C1
     ELSE IF NeedsReplace(s1, p)
          THEN Suspend(C1, Task("ho_attach", p, peer.gen, 0, <<>>, NoLoop))
          ELSE Suspend(C1, Task("ho_setremote", p, peer.gen, 0, <<>>, NoLoop))

\* handleAnswer without the phase test of webrtc.ts:425-428
handleAnswer_AnyPhase(C, p) ==
  IF ~Has(C.s, p) THEN C
  ELSE Suspend(C, Task("ha_setremote", p, C.s.peers[p].gen, 0, <<>>, NoLoop))

\* handleAnswer up to its first await (webrtc.ts:417-431)
handleAnswer(C, p) ==
  IF ~Has(C.s, p) THEN C
  ELSE IF C.s.peers[p].sig # "have-local-offer" THEN C
  ELSE Suspend(C, Task("ha_setremote", p, C.s.peers[p].gen, 0, <<>>, NoLoop))

\* handleIceCandidate up to its first await (webrtc.ts:446-458)
handleIceCandidate(C, p, c) ==
  IF ~Has(C.s, p) THEN C
  ELSE IF ~C.s.peers[p].remote
       THEN [C EXCEPT !.s.peers[p].pending = Append(@, c)]
       ELSE Suspend([C EXCEPT !.s.peers[p].handed = Append(@, c)],
                    Task("ic_add", p, C.s.peers[p].gen, 0, <<c>>, NoLoop))

\* toggleMic that also runs the attach-and-renegotiate broadcast
toggleMic_Renegotiates(C, enabled) ==
  LET s1 == [C.s EXCEPT !.trackEnabled = IF C.s.stream THEN enabled ELSE @,
                        !.isMicEnabled = enabled]
  IN addTracksToAllPeers(
       sendToSignalingServer([C EXCEPT !.s = s1],
                             Msg("mic-status", C.s.myId, NoId, IF enabled THEN 1 ELSE 0)))

\* toggleMic (webrtc.ts:542-556)
toggleMic(C, enabled) ==
  LET s1 == [C.s EXCEPT !.trackEnabled = IF C.s.stream THEN enabled ELSE @,
                        !.isMicEnabled = enabled]
  IN sendToSignalingServer([C EXCEPT !.s = s1],
                           Msg("mic-status", C.s.myId, NoId, IF enabled THEN 1 ELSE 0))

\* disconnect (webrtc.ts:571-597)
disconnect(s) ==
  [s EXCEPT !.open = [p \in DOMAIN @ |->
                        IF Has(s, p) THEN @[p] \ {s.peers[p].gen} ELSE @[p]],
            !.peers = EmptyMap, !.order = <<>>,
            !.stream = FALSE, !.trackEnabled = FALSE, !.ws = FALSE]

\* ----------------------------------------------------------- steps
\* an awaited transport operation may reject while the bound allows it
Outcomes == IF budget.fail > 0 THEN {TRUE, FALSE} ELSE {TRUE}

Failed(ok) == IF ok THEN budget ELSE [budget EXCEPT !.fail = @ - 1]

\* the relay forwards a frame only to a participant whose socket is open
Routed(out) ==
  LET D == {x \in DOMAIN out : x.to = NoId \/ (x.to \in users /\ mgr[x.to].ws)}
  IN [x \in D |-> out[x]]

\* r: a delivered frame's handler returned or stopped at an await; an awaited
\* transport operation resolved or rejected
Event(op, m, p, c, r) == [op |-> op, m |-> m, p |-> p, c |-> c, r |-> r]

Outcome(m, C) == IF Len(C.s.tasks) > Len(mgr[m].tasks) THEN "await" ELSE "return"

Settled(good) == IF good THEN "ok" ELSE "reject"

Finish(m, C, base, e, u) ==
  /\ mgr' = [mgr EXCEPT ![m] = C.s]
  /\ net' = base (+) Routed(C.out)
  /\ ev' = e
  /\ budget' = u
  /\ UNCHANGED users

\* the transport runs the operations of one connection in the order in which
\* they were called: a task resumes when no earlier task waits on its connection
CanResume(m, i) ==
  LET ts == mgr[m].tasks IN
  \A j \in 1..(i - 1) : ~(ts[j].p = ts[i].p /\ ts[j].g = ts[i].g)

Pop(m, i) == Ctx([mgr[m] EXCEPT !.tasks = RemoveAt(@, i)])

Joined == {u \in users : mgr[u].ws}

Orders(S) == {f \in [1..Cardinality(S) -> S] : \A i, j \in DOMAIN f : f[i] = f[j] => i = j}

\* ws.onmessage, welcome (webrtc.ts:229-245): the relay assigns the identifier,
\* lists the participants already connected and tells them of the newcomer
Join(m) ==
  /\ ~mgr[m].ws /\ ~mgr[m].left
  /\ \E list \in Orders(Joined) :
       LET s0 == [mgr[m] EXCEPT !.myId = m, !.ws = TRUE]
           C == Continue(Ctx(s0), [kind |-> "welcome", rest |-> list, seen |-> {}])
           told == SetToBag({Msg("user-connected", m, u, 0) : u \in Joined})
       IN Finish(m, C, net (+) told, Event("welcome", m, NoId, 0, Outcome(m, C)), budget)

Inbound(m, type) == {x \in BagToSet(net) : x.to = m /\ x.type = type}

Take(msg) == net (-) SetToBag({msg})

\* ws.onmessage, user-connected (webrtc.ts:248-256)
DeliverUserConnected(m) ==
  /\ mgr[m].ws
  /\ \E msg \in Inbound(m, "user-connected") :
       LET C == createOffer(Ctx(mgr[m]), msg.from, NoLoop)
       IN Finish(m, C, Take(msg), Event("user-connected", m, msg.from, 0, Outcome(m, C)), budget)

\* handleSignalingMessage, user-disconnected (webrtc.ts:306-309)
DeliverUserDisconnected(m) ==
  /\ mgr[m].ws
  /\ \E msg \in Inbound(m, "user-disconnected") :
       Finish(m, Ctx(removePeer(mgr[m], msg.from)), Take(msg),
              Event("user-disconnected", m, msg.from,
                    IF Has(mgr[m], msg.from) THEN 1 ELSE 0, "return"),
              budget)

\* handleSignalingMessage, offer (webrtc.ts:292-295)
DeliverOffer(m) ==
  /\ mgr[m].ws
  /\ \E msg \in Inbound(m, "offer") :
       LET C == handleOffer(Ctx(mgr[m]), msg.from)
       IN Finish(m, C, Take(msg), Event("offer", m, msg.from, 0, Outcome(m, C)), budget)

\* handleSignalingMessage, answer (webrtc.ts:296-299)
DeliverAnswer(m) ==
  /\ mgr[m].ws
  /\ \E msg \in Inbound(m, "answer") :
       LET C == handleAnswer(Ctx(mgr[m]), msg.from)
       IN Finish(m, C, Take(msg), Event("answer", m, msg.from, 0, Outcome(m, C)), budget)

\* handleSignalingMessage, ice-candidate (webrtc.ts:300-302)
DeliverIceCandidate(m) ==
  /\ mgr[m].ws
  /\ \E msg \in Inbound(m, "ice-candidate") :
       LET C == handleIceCandidate(Ctx(mgr[m]), msg.from, msg.cand)
       IN Finish(m, C, Take(msg), Event("ice-candidate", m, msg.from, msg.cand, Outcome(m, C)), budget)

\* handleSignalingMessage, mic-status (webrtc.ts:303-305): the relay fans the
\* frame out; the receivers only raise onMicStatusChange
DeliverMicStatus ==
  \E msg \in {x \in BagToSet(net) : x.type = "mic-status"} :
    /\ net' = Take(msg)
    /\ ev' = Event("mic-status", msg.from, NoId, msg.cand, "return")
    /\ UNCHANGED <<users, mgr, budget>>

\* peerConnection.onicecandidate (webrtc.ts:478-486)
IceCandidateFound(m) ==
  /\ budget.cand > 0
  /\ \E p \in DOMAIN mgr[m].peers :
       /\ mgr[m].peers[p].local
       /\ Finish(m, sendToSignalingServer(Ctx(mgr[m]),
                      Msg("ice-candidate", m, p, budget.cand)),
                 net, Event("onicecandidate", m, p, budget.cand, "return"),
                 [budget EXCEPT !.cand = @ - 1])

\* onconnectionstatechange that only logs the state
ConnectionFailed_OnlyLogs(m) ==
  /\ budget.connfail > 0
  /\ \E p \in DOMAIN mgr[m].peers :
       /\ mgr[m].peers[p].local /\ mgr[m].peers[p].remote
       /\ Finish(m, Ctx(mgr[m]), net,
                 Event("connection-failed", m, p, 0, "return"),
                 [budget EXCEPT !.connfail = @ - 1])

\* peerConnection.onconnectionstatechange, disconnected or failed
\* (webrtc.ts:502-508)
ConnectionFailed(m) ==
  /\ budget.connfail > 0
  /\ \E p \in DOMAIN mgr[m].peers :
       /\ mgr[m].peers[p].local /\ mgr[m].peers[p].remote
       /\ Finish(m, Ctx(removePeer(mgr[m], p)), net,
                 Event("connection-failed", m, p, 0, "return"),
                 [budget EXCEPT !.connfail = @ - 1])

\* initLocalStream after its awaited capture (webrtc.ts:89-99)
InitLocalStream(m) ==
  /\ budget.stream > 0 /\ ~mgr[m].stream /\ ~mgr[m].left
  /\ LET s0 == [mgr[m] EXCEPT !.stream = TRUE, !.trackEnabled = FALSE,
                              !.isMicEnabled = FALSE]
     IN Finish(m, addTracksToAllPeers(Ctx(s0)), net,
               Event("initLocalStream", m, NoId, 0, "return"),
               [budget EXCEPT !.stream = @ - 1])

\* toggleMic called by the user interface (webrtc.ts:542-556)
ToggleMic(m) ==
  /\ budget.toggle > 0 /\ ~mgr[m].left
  /\ \E enabled \in BOOLEAN :
       Finish(m, toggleMic(Ctx(mgr[m]), enabled), net,
              Event("toggleMic", m, NoId, IF enabled THEN 1 ELSE 0, "return"),
              [budget EXCEPT !.toggle = @ - 1])

\* disconnect called by the user interface (webrtc.ts:571-597); the relay
\* tells the others and has nobody left to forward this participant's frames to
Disconnect(m) ==
  /\ budget.leave > 0 /\ mgr[m].ws
  /\ LET s1 == [disconnect(mgr[m]) EXCEPT !.left = TRUE]
         kept == {x \in DOMAIN net : x.to # m}
         told == SetToBag({Msg("user-disconnected", m, u, 0) : u \in Joined \ {m}})
     IN Finish(m, Ctx(s1), Restrict(net, kept) (+) told,
               Event("disconnect", m, NoId, 0, "return"),
               [budget EXCEPT !.leave = @ - 1])

\* ------------------------------------------------- resumed handlers
Waiting(m, kinds) ==
  {i \in DOMAIN mgr[m].tasks : mgr[m].tasks[i].k \in kinds /\ CanResume(m, i)}

\* createOffer after its awaited attachLocalAudio (webrtc.ts:347-351)
ResumeOfferAttach(m) ==
  \E i \in Waiting(m, {"co_attach"}), ok \in Outcomes :
    LET t == mgr[m].tasks[i]
        C0 == Pop(m, i)
        C1 == [C0 EXCEPT !.s = Replaced(@, t.p, t.g, ok)]
    IN /\ (ok \/ Live(C0.s, t.p, t.g))
       /\ Finish(m, createOfferTry(C1, t.p, t.g, t.loop), net,
                 Event("co_attach", m, t.p, 0, Settled(ok)), Failed(ok))

\* addTracksToAllPeers after its awaited attachLocalAudio (webrtc.ts:164-165)
ResumeTracksAttach(m) ==
  \E i \in Waiting(m, {"at_attach"}), ok \in Outcomes :
    LET t == mgr[m].tasks[i]
        C0 == Pop(m, i)
        C1 == [C0 EXCEPT !.s = Replaced(@, t.p, t.g, ok)]
    IN /\ (ok \/ Live(C0.s, t.p, t.g))
       /\ Finish(m, renegotiate(C1, t.p, t.g, t.loop), net,
                 Event("at_attach", m, t.p, 0, Settled(ok)), Failed(ok))

\* handleOffer after its awaited attachLocalAudio (webrtc.ts:390-393)
ResumeAnswerAttach(m) ==
  \E i \in Waiting(m, {"ho_attach"}), ok \in Outcomes :
    LET t == mgr[m].tasks[i]
        C0 == Pop(m, i)
        C1 == [C0 EXCEPT !.s = Replaced(@, t.p, t.g, ok)]
    IN /\ (ok \/ Live(C0.s, t.p, t.g))
       /\ Finish(m, Suspend(C1, Task("ho_setremote", t.p, t.g, 0, <<>>, NoLoop)), net,
                 Event("ho_attach", m, t.p, 0, Settled(ok)), Failed(ok))

\* the same with makingOffer cleared at the end of the try block, not in finally
ResumeOfferCreate_NoFinally(m) ==
  \E i \in Waiting(m, {"offer_create"}), ok \in Outcomes :
    LET t == mgr[m].tasks[i]
        C0 == Pop(m, i)
        legal == Live(C0.s, t.p, t.g)
                   /\ C0.s.peers[t.p].sig \in {"stable", "have-local-offer"}
    IN /\ (ok \/ legal)
       /\ Finish(m, IF legal /\ ok
                    THEN Suspend(C0, Task("offer_setlocal", t.p, t.g, 0, <<>>, t.loop))
                    ELSE Continue(C0, t.loop),
                 net, Event("offer_create", m, t.p, 0, Settled(legal /\ ok)), Failed(ok))

\* createOffer and renegotiate after the awaited pc.createOffer()
\* (webrtc.ts:351-352, 182-183); a rejection runs catch and finally
ResumeOfferCreate(m) ==
  \E i \in Waiting(m, {"offer_create"}), ok \in Outcomes :
    LET t == mgr[m].tasks[i]
        C0 == Pop(m, i)
        legal == Live(C0.s, t.p, t.g)
                   /\ C0.s.peers[t.p].sig \in {"stable", "have-local-offer"}
        done == [C0 EXCEPT !.s = SetMakingOffer(@, t.p, t.g, FALSE)]
    IN /\ (ok \/ legal)
       /\ Finish(m, IF legal /\ ok
                    THEN Suspend(C0, Task("offer_setlocal", t.p, t.g, 0, <<>>, t.loop))
                    ELSE Continue(done, t.loop),
                 net, Event("offer_create", m, t.p, 0, Settled(legal /\ ok)), Failed(ok))

\* the same when setLocalDescription also resolves on a closed connection
ResumeOfferSetLocal_OnClosed(m) ==
  \E i \in Waiting(m, {"offer_setlocal"}), ok \in Outcomes :
    LET t == mgr[m].tasks[i]
        C0 == Pop(m, i)
        legal == Live(C0.s, t.p, t.g)
                   /\ C0.s.peers[t.p].sig \in {"stable", "have-local-offer"}
        C1 == IF legal /\ ok
              THEN sendToSignalingServer(
                     [C0 EXCEPT !.s.peers[t.p].sig = "have-local-offer",
                                !.s.peers[t.p].local = TRUE],
                     Msg("offer", C0.s.myId, t.p, 0))
              ELSE IF ok THEN sendToSignalingServer(C0, Msg("offer", C0.s.myId, t.p, 0))
              ELSE C0
        done == [C1 EXCEPT !.s = SetMakingOffer(@, t.p, t.g, FALSE)]
    IN Finish(m, Continue(done, t.loop), net,
              Event("offer_setlocal", m, t.p, 0, Settled(ok)), Failed(ok))

\* createOffer and renegotiate after the awaited setLocalDescription(offer):
\* send the offer, then finally (webrtc.ts:352-363, 183-194)
ResumeOfferSetLocal(m) ==
  \E i \in Waiting(m, {"offer_setlocal"}), ok \in Outcomes :
    LET t == mgr[m].tasks[i]
        C0 == Pop(m, i)
        legal == Live(C0.s, t.p, t.g)
                   /\ C0.s.peers[t.p].sig \in {"stable", "have-local-offer"}
        C1 == IF legal /\ ok
              THEN sendToSignalingServer(
                     [C0 EXCEPT !.s.peers[t.p].sig = "have-local-offer",
                                !.s.peers[t.p].local = TRUE],
                     Msg("offer", C0.s.myId, t.p, 0))
              ELSE C0
        done == [C1 EXCEPT !.s = SetMakingOffer(@, t.p, t.g, FALSE)]
    IN /\ (ok \/ legal)
       /\ Finish(m, Continue(done, t.loop), net,
                 Event("offer_setlocal", m, t.p, 0, Settled(legal /\ ok)), Failed(ok))

\* handleOffer after the awaited setRemoteDescription(offer) (webrtc.ts:393-404);
\* in have-local-offer the transport rolls the local offer back
ResumeSetRemoteOffer(m) ==
  \E i \in Waiting(m, {"ho_setremote"}), ok \in Outcomes :
    LET t == mgr[m].tasks[i]
        C0 == Pop(m, i)
        legal == Live(C0.s, t.p, t.g)
        C1 == [C0 EXCEPT !.s.peers[t.p].sig = "have-remote-offer",
                         !.s.peers[t.p].remote = TRUE]
        answer == Suspend(C1, Task("ho_answer", t.p, t.g, 0, <<>>, NoLoop))
    IN /\ (ok \/ legal)
       /\ Finish(m, IF legal /\ ok
                    THEN drainOrNext(C1, t.p, t.g, "ho_drain", answer)
                    ELSE C0,
                 net, Event("ho_setremote", m, t.p, 0, Settled(legal /\ ok)), Failed(ok))

\* handleAnswer after the awaited setRemoteDescription(answer) (webrtc.ts:431-440)
ResumeSetRemoteAnswer(m) ==
  \E i \in Waiting(m, {"ha_setremote"}), ok \in Outcomes :
    LET t == mgr[m].tasks[i]
        C0 == Pop(m, i)
        legal == Live(C0.s, t.p, t.g) /\ C0.s.peers[t.p].sig = "have-local-offer"
        C1 == [C0 EXCEPT !.s.peers[t.p].sig = "stable",
                         !.s.peers[t.p].remote = TRUE]
    IN /\ (ok \/ legal)
       /\ Finish(m, IF legal /\ ok
                    THEN drainOrNext(C1, t.p, t.g, "ha_drain", C1)
                    ELSE C0,
                 net, Event("ha_setremote", m, t.p, 0, Settled(legal /\ ok)), Failed(ok))

\* one awaited addIceCandidate of the drain loop has settled
\* (webrtc.ts:398-402, 436-440): a rejection leaves the loop by the catch
ResumeDrain(m) ==
  \E i \in Waiting(m, {"ho_drain", "ha_drain"}), ok \in Outcomes :
    LET t == mgr[m].tasks[i]
        C0 == Pop(m, i)
        legal == Live(C0.s, t.p, t.g)
        C1 == [C0 EXCEPT !.s.peers[t.p].handed = Append(@, t.arr[t.i + 1])]
        C2 == [C0 EXCEPT !.s.peers[t.p].pending = <<>>]
    IN /\ (ok \/ legal)
       /\ Finish(m, IF ~(legal /\ ok) THEN C0
                    ELSE IF t.i < Len(t.arr)
                         THEN Suspend(C1, Task(t.k, t.p, t.g, t.i + 1, t.arr, NoLoop))
                    ELSE IF t.k = "ho_drain"
                         THEN Suspend(C2, Task("ho_answer", t.p, t.g, 0, <<>>, NoLoop))
                    ELSE C2,
                 net, Event(t.k, m, t.p, t.arr[t.i], Settled(legal /\ ok)), Failed(ok))

\* handleOffer after the awaited createAnswer() (webrtc.ts:404-405)
ResumeAnswerCreate(m) ==
  \E i \in Waiting(m, {"ho_answer"}), ok \in Outcomes :
    LET t == mgr[m].tasks[i]
        C0 == Pop(m, i)
        legal == Live(C0.s, t.p, t.g) /\ C0.s.peers[t.p].sig = "have-remote-offer"
    IN /\ (ok \/ legal)
       /\ Finish(m, IF legal /\ ok
                    THEN Suspend(C0, Task("ho_setlocal", t.p, t.g, 0, <<>>, NoLoop))
                    ELSE C0,
                 net, Event("ho_answer", m, t.p, 0, Settled(legal /\ ok)), Failed(ok))

\* handleOffer after the awaited setLocalDescription(answer): send the answer
\* (webrtc.ts:405-411)
ResumeAnswerSetLocal(m) ==
  \E i \in Waiting(m, {"ho_setlocal"}), ok \in Outcomes :
    LET t == mgr[m].tasks[i]
        C0 == Pop(m, i)
        legal == Live(C0.s, t.p, t.g) /\ C0.s.peers[t.p].sig = "have-remote-offer"
    IN /\ (ok \/ legal)
       /\ Finish(m, IF legal /\ ok
                    THEN sendToSignalingServer(
                           [C0 EXCEPT !.s.peers[t.p].sig = "stable",
                                      !.s.peers[t.p].local = TRUE],
                           Msg("answer", C0.s.myId, t.p, 0))
                    ELSE C0,
                 net, Event("ho_setlocal", m, t.p, 0, Settled(legal /\ ok)), Failed(ok))

\* handleIceCandidate after the awaited addIceCandidate (webrtc.ts:458-461)
ResumeAddCandidate(m) ==
  \E i \in Waiting(m, {"ic_add"}), ok \in Outcomes :
    LET t == mgr[m].tasks[i]
        C0 == Pop(m, i)
        legal == Live(C0.s, t.p, t.g)
    IN /\ (ok \/ legal)
       /\ Finish(m, C0,
                 net, Event("ic_add", m, t.p, t.arr[1], Settled(legal /\ ok)), Failed(ok))

\* ------------------------------------------------------------ system
\* A run draws its events from one of these budgets: each combines the events
\* that interact, and no run uses all of them at once.
Quiet == [fail |-> 0, cand |-> 0, connfail |-> 0, toggle |-> 0, stream |-> 0, leave |-> 0]

Scenarios ==
  {[Quiet EXCEPT !.fail = MaxFail, !.cand = MaxCand],
   [Quiet EXCEPT !.cand = MaxCand, !.connfail = MaxConnFail],
   [Quiet EXCEPT !.stream = MaxStream, !.toggle = MaxToggle],
   [Quiet EXCEPT !.connfail = MaxConnFail, !.stream = MaxStream, !.leave = MaxLeave],
   [Quiet EXCEPT !.fail = MaxFail, !.connfail = MaxConnFail, !.stream = MaxStream]}

Init ==
  /\ \/ users = {Alice, Bob} /\ budget \in Scenarios
     \/ users \in {{Al, Alice}, {Al, Bob}} /\ budget = Quiet
  /\ mgr = [m \in users |-> NewManager(users \ {m})]
  /\ net = EmptyBag
  /\ ev = Event("init", NoId, NoId, 0, "return")

Next ==
  \/ \E m \in users : Join(m)
  \/ \E m \in users : DeliverUserConnected(m)
  \/ \E m \in users : DeliverUserDisconnected(m)
  \/ \E m \in users : DeliverOffer(m)
  \/ \E m \in users : DeliverAnswer(m)
  \/ \E m \in users : DeliverIceCandidate(m)
  \/ DeliverMicStatus
  \/ \E m \in users : IceCandidateFound(m)
  \/ \E m \in users : ConnectionFailed(m)
  \/ \E m \in users : InitLocalStream(m)
  \/ \E m \in users : ToggleMic(m)
  \/ \E m \in users : Disconnect(m)
  \/ \E m \in users : ResumeOfferAttach(m)
  \/ \E m \in users : ResumeTracksAttach(m)
  \/ \E m \in users : ResumeAnswerAttach(m)
  \/ \E m \in users : ResumeOfferCreate(m)
  \/ \E m \in users : ResumeOfferSetLocal(m)
  \/ \E m \in users : ResumeSetRemoteOffer(m)
  \/ \E m \in users : ResumeSetRemoteAnswer(m)
  \/ \E m \in users : ResumeDrain(m)
  \/ \E m \in users : ResumeAnswerCreate(m)
  \/ \E m \in users : ResumeAnswerSetLocal(m)
  \/ \E m \in users : ResumeAddCandidate(m)

Spec == Init /\ [][Next]_vars

\* A failure-free run in which every delivered frame is eventually handled and
\* every awaited transport operation eventually settles: the relay delivers
\* what it accepted and the transport completes what it was asked.
InitLive ==
  /\ users = {Alice, Bob}
  /\ budget = [Quiet EXCEPT !.stream = MaxStream]
  /\ mgr = [m \in users |-> NewManager(users \ {m})]
  /\ net = EmptyBag
  /\ ev = Event("init", NoId, NoId, 0, "return")

Handle ==
  \/ \E m \in users : DeliverUserConnected(m)
  \/ \E m \in users : DeliverOffer(m)
  \/ \E m \in users : DeliverAnswer(m)
  \/ \E m \in users : ResumeOfferAttach(m)
  \/ \E m \in users : ResumeTracksAttach(m)
  \/ \E m \in users : ResumeAnswerAttach(m)
  \/ \E m \in users : ResumeOfferCreate(m)
  \/ \E m \in users : ResumeOfferSetLocal(m)
  \/ \E m \in users : ResumeSetRemoteOffer(m)
  \/ \E m \in users : ResumeSetRemoteAnswer(m)
  \/ \E m \in users : ResumeAnswerCreate(m)
  \/ \E m \in users : ResumeAnswerSetLocal(m)

NextLive ==
  \/ \E m \in users : Join(m)
  \/ \E m \in users : InitLocalStream(m)
  \/ Handle

SpecLive == InitLive /\ [][NextLive]_vars /\ WF_vars(Handle)

\* Three participants join in the order alice, bob, carl; no transport
\* operation fails, and every delivered frame is eventually handled and every
\* awaited transport operation eventually settles.
JoinOrder == <<Alice, Bob, Carl>>

InitTrio ==
  /\ users = {Alice, Bob, Carl}
  /\ budget = Quiet
  /\ mgr = [m \in users |-> NewManager(users \ {m})]
  /\ net = EmptyBag
  /\ ev = Event("init", NoId, NoId, 0, "return")

\* every frame is handled and no handler is suspended
AtRest == net = EmptyBag /\ \A m \in users : mgr[m].tasks = <<>>

\* the relay accepts the connections one after the other, the third one when
\* the exchange of the first two is at rest
JoinInOrder ==
  \E i \in DOMAIN JoinOrder :
    /\ \A j \in 1..(i - 1) : mgr[JoinOrder[j]].ws
    /\ (i = Len(JoinOrder)) => AtRest
    /\ Join(JoinOrder[i])

HandleTrio ==
  \/ \E m \in users : DeliverUserConnected(m)
  \/ \E m \in users : DeliverOffer(m)
  \/ \E m \in users : DeliverAnswer(m)
  \/ \E m \in users : ResumeOfferCreate(m)
  \/ \E m \in users : ResumeOfferSetLocal(m)
  \/ \E m \in users : ResumeSetRemoteOffer(m)
  \/ \E m \in users : ResumeSetRemoteAnswer(m)
  \/ \E m \in users : ResumeAnswerCreate(m)
  \/ \E m \in users : ResumeAnswerSetLocal(m)

NextTrio ==
  \/ JoinInOrder
  \/ HandleTrio

SpecTrio == InitTrio /\ [][NextTrio]_vars /\ WF_vars(HandleTrio)

\* The same three participants when carl's transport towards alice is slow: its
\* awaited operations may never settle, while every frame is eventually handled
\* and every other awaited operation eventually settles.
SlowSteps ==
  {"co_attach", "at_attach", "ho_attach", "offer_create", "offer_setlocal",
   "ho_setremote", "ha_setremote", "ho_drain", "ha_drain", "ho_answer",
   "ho_setlocal", "ic_add"}

PromptSteps ==
  HandleTrio /\ ~(ev'.m = Carl /\ ev'.p = Alice /\ ev'.op \in SlowSteps)

SpecSlow == InitTrio /\ [][NextTrio]_vars /\ WF_vars(PromptSteps)

\* Three participants with two Sessions each: in one run a transport may report
\* a connectivity failure, in another bob may leave; no transport operation
\* fails.
MeshScenarios ==
  {[Quiet EXCEPT !.connfail = MaxConnFail],
   [Quiet EXCEPT !.leave = MaxLeave]}

InitMesh ==
  /\ users = {Alice, Bob, Carl}
  /\ budget \in MeshScenarios
  /\ mgr = [m \in users |-> NewManager(users \ {m})]
  /\ net = EmptyBag
  /\ ev = Event("init", NoId, NoId, 0, "return")

\* the relay accepts each connection when the earlier exchanges are at rest
JoinAtRest ==
  \E i \in DOMAIN JoinOrder :
    /\ \A j \in 1..(i - 1) : mgr[JoinOrder[j]].ws \/ mgr[JoinOrder[j]].left
    /\ AtRest
    /\ Join(JoinOrder[i])

NextMesh ==
  \/ JoinAtRest
  \/ HandleTrio
  \/ \E m \in users : DeliverUserDisconnected(m)
  \/ \E m \in users : ConnectionFailed(m)
  \/ Disconnect(Bob)

SpecMesh == InitMesh /\ [][NextMesh]_vars

\* Two participants; the relay may send a participant a second welcome frame
\* that carries an identifier no participant holds. No transport operation
\* fails.
WelcomeIds == {Alice, Bob, Carl}

InitWelcome ==
  /\ users = {Alice, Bob}
  /\ budget = Quiet
  /\ mgr = [m \in users |-> NewManager(WelcomeIds \ {m})]
  /\ net = EmptyBag
  /\ ev = Event("init", NoId, NoId, 0, "return")

\* ws.onmessage, welcome (webrtc.ts:229-245), for a welcome frame that arrives
\* on a socket that has had its welcome: the handler has no test for it
WelcomeAgain(m) ==
  /\ mgr[m].ws /\ mgr[m].myId = m
  /\ \E id \in WelcomeIds \ users :
       \E list \in Orders(Joined \ {m}) :
         LET s0 == [mgr[m] EXCEPT !.myId = id]
             C == Continue(Ctx(s0), [kind |-> "welcome", rest |-> list, seen |-> {}])
         IN Finish(m, C, net, Event("welcome", m, NoId, 1, Outcome(m, C)), budget)

NextWelcome ==
  \/ \E m \in users : Join(m)
  \/ \E m \in users : WelcomeAgain(m)
  \/ HandleTrio

SpecWelcome == InitWelcome /\ [][NextWelcome]_vars

\* Two participants, with one malformed frame on its way to one of them: a
\* frame that is not JSON, a frame of an unknown type, or an offer, answer or
\* ice-candidate frame without a usable payload, from the other participant or
\* without a sender (from is undefined, written NoId). No transport operation
\* fails.
MalformedKinds == {"unparseable", "unknown", "bad-offer", "bad-answer", "bad-candidate"}

MalformedFrames ==
  {Msg(k, f, m, 0) : k \in MalformedKinds, f \in {Alice, Bob, NoId}, m \in {Alice, Bob}}

InitMalformed ==
  /\ users = {Alice, Bob}
  /\ budget = [Quiet EXCEPT !.stream = MaxStream]
  /\ mgr = [m \in users |-> NewManager((users \ {m}) \cup {NoId})]
  /\ net \in {SetToBag({x}) : x \in {y \in MalformedFrames : y.from # y.to}}
  /\ ev = Event("init", NoId, NoId, 0, "return")

\* ws.onmessage (webrtc.ts:223-260) and handleSignalingMessage (290-311) for a
\* malformed frame: JSON.parse throws into the catch of 257; an unknown type
\* matches no case; handleOffer creates the Session (371-379) and runs the
\* collision test and attachLocalAudio before new RTCSessionDescription(sdp)
\* throws into the catch of 412; handleAnswer returns at 419 or 425 or throws
\* into the catch of 441; handleIceCandidate returns at 448
malformedFrame(C, k, p) ==
  IF k = "bad-offer"
  THEN LET s1 == IF Has(C.s, p) THEN C.s
                 ELSE createPeerConnection(C.s, p, StrLess(C.s.myId, p))
           C1 == [C EXCEPT !.s = s1]
           peer == s1.peers[p]
           offerCollision == peer.makingOffer \/ peer.sig # "stable"
           ignoreOffer == ~peer.isPolite /\ offerCollision
       IN IF ignoreOffer THEN C1
          ELSE IF NeedsReplace(s1, p)
               THEN Suspend(C1, Task("bo_attach", p, peer.gen, 0, <<>>, NoLoop))
               ELSE C1
  ELSE C

DeliverMalformed(m) ==
  /\ mgr[m].ws
  /\ \E msg \in {x \in BagToSet(net) : x.to = m /\ x.type \in MalformedKinds} :
       LET C == malformedFrame(Ctx(mgr[m]), msg.type, msg.from)
       IN Finish(m, C, Take(msg), Event(msg.type, m, msg.from, 0, Outcome(m, C)), budget)

\* handleOffer of a malformed offer after its awaited attachLocalAudio
\* (webrtc.ts:390-393): the constructor throws, the catch of 412 logs
ResumeMalformedAttach(m) ==
  \E i \in Waiting(m, {"bo_attach"}) :
    LET t == mgr[m].tasks[i]
        C0 == Pop(m, i)
    IN Finish(m, [C0 EXCEPT !.s = Replaced(@, t.p, t.g, TRUE)], net,
              Event("bo_attach", m, t.p, 0, "ok"), budget)

NextMalformed ==
  \/ \E m \in users : Join(m)
  \/ \E m \in users : InitLocalStream(m)
  \/ Handle
  \/ \E m \in users : DeliverMalformed(m)
  \/ \E m \in users : ResumeMalformedAttach(m)

SpecMalformed == InitMalformed /\ [][NextMalformed]_vars

\* Three participants that join one after the other; carl, the last to join
\* and the one whose welcome lists two participants, may leave at any moment.
\* No transport operation fails.
InitLeave ==
  /\ users = {Alice, Bob, Carl}
  /\ budget = [Quiet EXCEPT !.leave = MaxLeave]
  /\ mgr = [m \in users |-> NewManager(users \ {m})]
  /\ net = EmptyBag
  /\ ev = Event("init", NoId, NoId, 0, "return")

NextLeave ==
  \/ JoinAtRest
  \/ HandleTrio
  \/ \E m \in users : DeliverUserDisconnected(m)
  \/ Disconnect(Carl)

SpecLeave == InitLeave /\ [][NextLeave]_vars

\* Three participants: alice starts her local stream, and with it the
\* broadcast of addTracksToAllPeers, when she and bob are at rest and before
\* carl joins; carl joins when nothing but that broadcast is under way, and
\* while the broadcast runs alice's handlers are the ones scheduled. No
\* transport operation fails and nobody leaves.
InitBroadcast ==
  /\ users = {Alice, Bob, Carl}
  /\ budget = [Quiet EXCEPT !.stream = MaxStream]
  /\ mgr = [m \in users |-> NewManager(users \ {m})]
  /\ net = EmptyBag
  /\ ev = Event("init", NoId, NoId, 0, "return")

OnlyBroadcast ==
  /\ net = EmptyBag
  /\ mgr[Bob].tasks = <<>>
  /\ \A i \in DOMAIN mgr[Alice].tasks : mgr[Alice].tasks[i].loop.kind = "tracks"

JoinDuringBroadcast ==
  \E i \in DOMAIN JoinOrder :
    /\ \A j \in 1..(i - 1) : mgr[JoinOrder[j]].ws
    /\ (i = Len(JoinOrder)) => OnlyBroadcast
    /\ Join(JoinOrder[i])

StreamBeforeCarl == mgr[Bob].ws /\ ~mgr[Carl].ws /\ AtRest /\ InitLocalStream(Alice)

Broadcasting(s) == \E i \in DOMAIN s.tasks : s.tasks[i].loop.kind = "tracks"

\* while alice's broadcast is under way only alice's handlers run
AliceFirst == Handle /\ (Broadcasting(mgr[Alice]) => ev'.m = Alice)

NextBroadcast ==
  \/ JoinDuringBroadcast
  \/ StreamBeforeCarl
  \/ AliceFirst

SpecBroadcast == InitBroadcast /\ [][NextBroadcast]_vars

\* ------------------------------------------------------------ claims
Pairs == {pr \in users \X users : pr[1] # pr[2]}

Sess(a, b) == mgr[a].peers[b]

TasksOf(m, p, kinds) ==
  {i \in DOMAIN mgr[m].tasks :
     /\ mgr[m].tasks[i].p = p
     /\ mgr[m].tasks[i].k \in kinds
     /\ Live(mgr[m], p, mgr[m].tasks[i].g)}

\* the polite side of a pair is the one whose identifier compares smaller, and
\* two Sessions of one pair never have the same role
C1_RoleOfPair ==
  \A pr \in Pairs :
    /\ Has(mgr[pr[1]], pr[2]) => Sess(pr[1], pr[2]).isPolite = StrLess(pr[1], pr[2])
    /\ (Has(mgr[pr[1]], pr[2]) /\ Has(mgr[pr[2]], pr[1]))
         => Sess(pr[1], pr[2]).isPolite # Sess(pr[2], pr[1]).isPolite

\* a Session that stays in the table keeps its role
C1_RoleKept ==
  \A pr \in Pairs :
    (Has(mgr[pr[1]], pr[2]) /\ Has(mgr'[pr[1]], pr[2]))
      => mgr'[pr[1]].peers[pr[2]].isPolite = Sess(pr[1], pr[2]).isPolite

\* C1: in the A-B session exactly one of A and B is polite, the one with the
\* lexicographically smaller identifier, whoever created its Session first and
\* by createOffer or handleOffer, and a Session's role never changes.
C1_Role == []C1_RoleOfPair /\ [][C1_RoleKept]_vars

\* C1 witness: one side's Session was created by handleOffer (its user-connected
\* frame is still undelivered), the other side's by createOffer
C1_Witness ==
  \E pr \in Pairs :
    /\ Has(mgr[pr[1]], pr[2]) /\ Has(mgr[pr[2]], pr[1])
    /\ BagIn(Msg("user-connected", pr[2], pr[1], 0), net)
    /\ Sess(pr[1], pr[2]).isPolite /\ ~Sess(pr[2], pr[1]).isPolite

NamePairs == {pr \in Names \X Names : pr[1] # pr[2]}

StableRemote(a, b) ==
  a \in users /\ Has(mgr[a], b) /\ Sess(a, b).sig = "stable" /\ Sess(a, b).remote

\* both have sent an offer to the other and neither offer has been received
Glare(a, b) ==
  BagIn(Msg("offer", a, b, 0), net) /\ BagIn(Msg("offer", b, a, 0), net)

\* the last step was handleOffer returning at webrtc.ts:385-388
OfferIgnored == ev.op = "offer" /\ ev.r = "return"

OneMediaLine == \A pr \in Pairs : Has(mgr[pr[1]], pr[2]) => Sess(pr[1], pr[2]).senders = 1

\* crossing offers lead to both sides stable with a remote description
C2_Converges == \A pr \in NamePairs : Glare(pr[1], pr[2]) ~> StableRemote(pr[1], pr[2])

\* C2 as stated: after crossing offers both sides reach the stable phase with a
\* remote description and one audio media line, and the offer that is discarded
\* is the impolite side's (so the side that discards it is the polite one).
C2_ImpoliteOfferDiscarded ==
  /\ C2_Converges
  /\ [](OneMediaLine /\ (OfferIgnored => Sess(ev.m, ev.p).isPolite))

\* C2 amended: after crossing offers both sides reach the stable phase with a
\* remote description and one audio media line, and the offer that is discarded
\* is the polite side's: only an impolite side discards an inbound offer.
C2_PoliteOfferDiscarded ==
  /\ C2_Converges
  /\ [](OneMediaLine /\ (OfferIgnored => ~Sess(ev.m, ev.p).isPolite))

\* C2 witness: the offers crossed, and the impolite side has just discarded the
\* polite side's offer while its own is still pending
C2_Witness ==
  \E pr \in Pairs :
    /\ OfferIgnored /\ ev.m = pr[1] /\ ev.p = pr[2]
    /\ Sess(pr[1], pr[2]).sig = "have-local-offer"
    /\ Has(mgr[pr[2]], pr[1]) /\ Sess(pr[2], pr[1]).sig = "have-local-offer"
    /\ BagIn(Msg("offer", pr[1], pr[2], 0), net)

RECURSIVE IsSubseq(_, _)
IsSubseq(q, s) ==
  IF q = <<>> THEN TRUE
  ELSE IF s = <<>> THEN FALSE
  ELSE IF Head(q) = Head(s) THEN IsSubseq(Tail(q), Tail(s))
  ELSE IsSubseq(q, Tail(s))

Range(s) == {s[i] : i \in DOMAIN s}

Draining(a, b) == TasksOf(a, b, {"ho_drain", "ha_drain"}) # {}

\* once the remote description is set and the handler that set it is through
\* with the buffer, every buffered candidate was passed to addIceCandidate
C3_Handed ==
  \A pr \in Pairs :
    (Has(mgr[pr[1]], pr[2]) /\ Sess(pr[1], pr[2]).remote
       /\ ~Draining(pr[1], pr[2]))
      => IsSubseq(Sess(pr[1], pr[2]).pending, Sess(pr[1], pr[2]).handed)

\* the buffer is emptied only when all of it was handed over, in arrival order
C3_InOrder ==
  \A pr \in Pairs :
    (Has(mgr[pr[1]], pr[2])
       /\ Live(mgr'[pr[1]], pr[2], Sess(pr[1], pr[2]).gen)
       /\ Sess(pr[1], pr[2]).pending # <<>>
       /\ mgr'[pr[1]].peers[pr[2]].pending = <<>>)
      => IsSubseq(Sess(pr[1], pr[2]).pending, mgr'[pr[1]].peers[pr[2]].handed)

\* C3: every candidate buffered for a Session before its remote description is
\* handed to the transport after the remote description is set, none is
\* dropped, and the buffered candidates are handed over in arrival order.
C3_NeverDropped == []C3_Handed /\ [][C3_InOrder]_vars

\* C4: a candidate that arrives before any offer/answer exchange with its
\* sender, possibly before a Session for the sender exists, is buffered (and
\* handed to the transport once the exchange has completed).
C4_Buffered ==
  (ev.op = "ice-candidate")
    => /\ Has(mgr[ev.m], ev.p)
       /\ \/ ev.c \in Range(Sess(ev.m, ev.p).pending)
          \/ \E i \in TasksOf(ev.m, ev.p, {"ic_add"}) : mgr[ev.m].tasks[i].arr = <<ev.c>>

NonMic(bag) == Restrict(bag, {x \in DOMAIN bag : x.type # "mic-status"})

\* C5: toggleMic emits no offer or answer and leaves every Session, every
\* transport and every running negotiation as it was; it changes only the
\* track's enabled flag and the recorded mute state.
C5_ToggleFrame ==
  [][(ev'.op = "toggleMic")
       => /\ NonMic(net') = NonMic(net)
          /\ \A m \in users \ {ev'.m} : mgr'[m] = mgr[m]
          /\ mgr'[ev'.m] = [mgr[ev'.m] EXCEPT
                              !.trackEnabled = mgr'[ev'.m].trackEnabled,
                              !.isMicEnabled = (ev'.c = 1)]
          /\ mgr'[ev'.m].trackEnabled
               = (IF mgr[ev'.m].stream THEN ev'.c = 1 ELSE mgr[ev'.m].trackEnabled)]_vars

\* C5 witness: the microphone was toggled while a negotiation with a remote was
\* under way
C5_Witness ==
  /\ ev.op = "toggleMic"
  /\ \E p \in DOMAIN mgr[ev.m].peers : mgr[ev.m].peers[p].makingOffer
  /\ mgr[ev.m].stream /\ mgr[ev.m].trackEnabled

\* C6: removePeer for an identifier without a Session changes nothing, closes
\* no transport and raises no departure notification.
C6_RemoveAbsent ==
  [][(ev'.op = "user-disconnected" /\ ~Has(mgr[ev'.m], ev'.p))
       => /\ mgr' = mgr
          /\ net' = net (-) SetToBag({Msg("user-disconnected", ev'.p, ev'.m, 0)})]_vars

\* C6 witness: a Session was removed once, and a user-disconnected frame then
\* asked for the removal of the same remote, which by then had no Session
C6_Witness ==
  /\ ev.op = "user-disconnected" /\ ev.c = 0
  /\ mgr[ev.m].notified[ev.p] = 1

\* C7: an answer that arrives for a Session that is not in have-local-offer, or
\* for no Session, is discarded: no remote description is set, nothing is
\* drained, nothing is sent, no Session field changes.
C7_StaleAnswer ==
  [][(/\ ev'.op = "answer"
      /\ ~(Has(mgr[ev'.m], ev'.p) /\ Sess(ev'.m, ev'.p).sig = "have-local-offer"))
       => /\ mgr' = mgr
          /\ net' = net (-) SetToBag({Msg("answer", ev'.p, ev'.m, 0)})]_vars

\* C7 witness: an answer was delivered to a Session in the stable phase
C7_Witness ==
  /\ ev.op = "answer" /\ ev.r = "return"
  /\ Has(mgr[ev.m], ev.p) /\ Sess(ev.m, ev.p).sig = "stable"

Offering(a, b) == TasksOf(a, b, {"offer_create", "offer_setlocal"}) # {}

\* C8: makingOffer is true only while a createOffer or renegotiate operation of
\* that Session is between its try and its finally; when the operation has
\* completed, by success or by a rejected step, the flag is false.
C8_MakingOffer ==
  \A pr \in Pairs :
    (Has(mgr[pr[1]], pr[2]) /\ Sess(pr[1], pr[2]).makingOffer)
      => Offering(pr[1], pr[2])

\* C8 witness: an awaited step of an offer has just been rejected and the
\* Session, still in the table, is no longer making an offer
C8_Witness ==
  /\ ev.op \in {"offer_create", "offer_setlocal"} /\ ev.r = "reject"
  /\ Has(mgr[ev.m], ev.p)
  /\ ~Sess(ev.m, ev.p).makingOffer /\ ~Offering(ev.m, ev.p)
  /\ budget.fail = 0

\* C9: the table holds one Session per identifier, with one open transport; a
\* creation request (createOffer or handleOffer) for an identifier that has a
\* Session keeps that Session: same transport, role and buffered candidates,
\* negotiation state not reset.
C9_Reuse ==
  [][(ev'.op \in {"offer", "user-connected"} /\ Has(mgr[ev'.m], ev'.p))
       => /\ Has(mgr'[ev'.m], ev'.p)
          /\ mgr'[ev'.m].created = mgr[ev'.m].created
          /\ mgr'[ev'.m].open = mgr[ev'.m].open
          /\ LET old == Sess(ev'.m, ev'.p)
                 new == mgr'[ev'.m].peers[ev'.p]
             IN /\ new = [old EXCEPT !.makingOffer = new.makingOffer]
                /\ old.makingOffer => new.makingOffer]_vars

\* C9 witness: an offer arrived for a Session that had already sent its own
C9_Witness ==
  /\ ev.op = "offer" /\ ev.r = "await"
  /\ Has(mgr[ev.m], ev.p) /\ Sess(ev.m, ev.p).sig = "have-local-offer"
  /\ mgr[ev.m].created[ev.p] = 1

\* C10: a transport is closed exactly when its Session is not in the table:
\* the only open transport of a remote is the one of its Session in the table.
C10_ClosedIffRemoved ==
  \A pr \in Pairs :
    /\ mgr[pr[1]].open[pr[2]] \subseteq 1..mgr[pr[1]].created[pr[2]]
    /\ mgr[pr[1]].open[pr[2]]
         = (IF Has(mgr[pr[1]], pr[2]) THEN {Sess(pr[1], pr[2]).gen} ELSE {})

\* C10 witness: a first transport was closed with its Session and a second
\* Session for the same remote is in the table with its own open transport
C10_Witness ==
  \E pr \in Pairs :
    /\ Has(mgr[pr[1]], pr[2]) /\ Sess(pr[1], pr[2]).gen = 2
    /\ mgr[pr[1]].open[pr[2]] = {2}
    /\ mgr[pr[1]].notified[pr[2]] = 1

TrioPairs == {pr \in {Alice, Bob, Carl} \X {Alice, Bob, Carl} : pr[1] # pr[2]}

AllJoined == \A m \in {Alice, Bob, Carl} : m \in users /\ mgr[m].ws

Established == \A pr \in TrioPairs : StableRemote(pr[1], pr[2])

\* the role each side of each pair holds when alice < bob < carl
RolesTrio ==
  /\ Has(mgr[Alice], Bob) => Sess(Alice, Bob).isPolite
  /\ Has(mgr[Alice], Carl) => Sess(Alice, Carl).isPolite
  /\ Has(mgr[Bob], Carl) => Sess(Bob, Carl).isPolite
  /\ Has(mgr[Bob], Alice) => ~Sess(Bob, Alice).isPolite
  /\ Has(mgr[Carl], Alice) => ~Sess(Carl, Alice).isPolite
  /\ Has(mgr[Carl], Bob) => ~Sess(Carl, Bob).isPolite

\* C11: when alice, bob and carl have joined in that order, all three pairwise
\* sessions are eventually established on both sides (stable phase with a
\* remote description), alice being polite towards bob and carl and bob
\* polite towards carl.
C11_TrioEstablished ==
  /\ AllJoined ~> Established
  /\ [](AllJoined => RolesTrio)

\* the removals of a Session by removePeer: a user-disconnected frame, or the
\* transport reporting disconnected or failed
Removal(e) == e.op \in {"user-disconnected", "connection-failed"}

\* C12: removing the Session of one remote leaves every other Session of that
\* manager unchanged: it stays in the table with the same role, phase,
\* makingOffer, buffered candidates and open transport.
C12_OthersKept ==
  [][Removal(ev')
       => \A q \in DOMAIN mgr[ev'.m].peers \ {ev'.p} :
            /\ Has(mgr'[ev'.m], q)
            /\ mgr'[ev'.m].peers[q] = mgr[ev'.m].peers[q]
            /\ mgr'[ev'.m].open[q] = mgr[ev'.m].open[q]
            /\ mgr'[ev'.m].created[q] = mgr[ev'.m].created[q]
            /\ mgr'[ev'.m].notified[q] = mgr[ev'.m].notified[q]]_vars

\* C12 witness: a Session has just been removed while the manager's other
\* Session was negotiating
C12_Witness ==
  /\ Removal(ev) /\ ~Has(mgr[ev.m], ev.p) /\ mgr[ev.m].notified[ev.p] = 1
  /\ \E q \in DOMAIN mgr[ev.m].peers :
       /\ Sess(ev.m, q).sig # "stable"
       /\ mgr[ev.m].open[q] = {Sess(ev.m, q).gen}

\* a non-empty buffer belongs to a Session without a remote description
C13_OnlyBeforeRemote ==
  \A pr \in Pairs :
    (Has(mgr[pr[1]], pr[2]) /\ Sess(pr[1], pr[2]).pending # <<>>)
      => ~Sess(pr[1], pr[2]).remote

\* a buffer that is empty once the remote description is set stays empty while
\* the Session lives
C13_StaysEmpty ==
  \A pr \in Pairs :
    (/\ Has(mgr[pr[1]], pr[2])
     /\ Sess(pr[1], pr[2]).remote /\ Sess(pr[1], pr[2]).pending = <<>>
     /\ Live(mgr'[pr[1]], pr[2], Sess(pr[1], pr[2]).gen))
      => mgr'[pr[1]].peers[pr[2]].pending = <<>>

\* C13: in every reachable state pendingCandidates of a Session is non-empty
\* only if no remote description has been applied to its transport yet, and
\* once drained after the remote description is set it stays empty for the
\* rest of the Session's life.
C13_PendingBeforeRemote == []C13_OnlyBeforeRemote /\ [][C13_StaysEmpty]_vars

\* the awaited steps of a negotiation: createOffer, setLocalDescription,
\* setRemoteDescription and createAnswer
NegotiationSteps ==
  {"offer_create", "offer_setlocal", "ho_setremote", "ha_setremote",
   "ho_answer", "ho_setlocal"}

\* the steps of handleOffer, the only handler that leaves have-remote-offer
AnswerSteps == {"ho_attach", "ho_setremote", "ho_drain", "ho_answer", "ho_setlocal"}

\* Session b of manager s is in have-remote-offer and no handleOffer is under
\* way for it: createOffer and renegotiate skip it (webrtc.ts:342, 176),
\* handleAnswer returns (webrtc.ts:425) and, the side being impolite,
\* handleOffer ignores every offer (webrtc.ts:382-388)
Wedged(s, b) ==
  /\ Has(s, b)
  /\ ~s.peers[b].isPolite
  /\ s.peers[b].sig = "have-remote-offer"
  /\ \A i \in DOMAIN s.tasks :
       ~(s.tasks[i].p = b /\ s.tasks[i].g = s.peers[b].gen /\ s.tasks[i].k \in AnswerSteps)

\* C14: a negotiation step that fails in the transport leaves its Session in a
\* state from which a later trigger can still negotiate: not in a non-stable
\* phase in which every later createOffer is skipped and every later inbound
\* offer is ignored.
C14_Recoverable ==
  [][(ev'.r = "reject" /\ ev'.op \in NegotiationSteps)
       => ~Wedged(mgr'[ev'.m], ev'.p)]_vars

\* the last step was a rejected addIceCandidate of kind k, called by a handler
\* whose Session is in the table before and after the step
CandidateRejected(k) ==
  /\ ev'.op = k /\ ev'.r = "reject"
  /\ \A i \in DOMAIN mgr[ev'.m].tasks :
       (mgr[ev'.m].tasks[i].k = k /\ mgr[ev'.m].tasks[i].p = ev'.p)
         => Live(mgr[ev'.m], ev'.p, mgr[ev'.m].tasks[i].g)

\* the handler of Session p of manager s goes on with a step of kinds
GoesOn(s, p, kinds) ==
  \E i \in DOMAIN s.tasks :
    s.tasks[i].p = p /\ s.tasks[i].g = s.peers[p].gen /\ s.tasks[i].k \in kinds

\* C15: a rejected addIceCandidate, called by handleIceCandidate or by the drain
\* of handleOffer or handleAnswer, never aborts the session: the Session stays
\* in the table and the handler goes on, to the remaining buffered candidates
\* and, in handleOffer, to the answer.
C15_CandidateFailure ==
  [][/\ \A k \in {"ic_add", "ho_drain", "ha_drain"} :
          CandidateRejected(k) => Has(mgr'[ev'.m], ev'.p)
     /\ CandidateRejected("ho_drain")
          => GoesOn(mgr'[ev'.m], ev'.p, {"ho_drain", "ho_answer"})
     /\ (CandidateRejected("ha_drain") /\ ev'.c # Sess(ev'.m, ev'.p).pending[Len(Sess(ev'.m, ev'.p).pending)])
          => GoesOn(mgr'[ev'.m], ev'.p, {"ha_drain"})]_vars

\* the awaited steps of createOffer, renegotiate, handleOffer and handleAnswer
OperationSteps ==
  NegotiationSteps \cup {"co_attach", "ho_attach", "ho_drain", "ha_drain"}

\* C16: no two negotiation operations (createOffer, renegotiate, handleOffer,
\* handleAnswer) of one Session are in progress at the same time: at most one
\* of them is suspended at an awaited step.
C16_OneAtATime ==
  \A pr \in Pairs :
    Has(mgr[pr[1]], pr[2]) => Cardinality(TasksOf(pr[1], pr[2], OperationSteps)) <= 1

\* the welcome handler of m has called createOffer for every listed remote
WelcomeDone(m) ==
  \A i \in DOMAIN mgr[m].tasks :
    mgr[m].tasks[i].loop.kind = "welcome" => mgr[m].tasks[i].loop.rest = <<>>

\* C17: a negotiation with one remote that is slow or never completes an
\* awaited step does not stall the others: once carl has his welcome, the
\* offers to all the remotes it lists are eventually made, although the
\* awaited steps of his negotiation with alice may never settle.
C17_NoStall == mgr[Carl].ws ~> WelcomeDone(Carl)

\* the step resumes a handler of kind k whose Session has been removed from
\* the table since the handler was suspended
ResumedAfterRemoval(k) ==
  /\ ev'.op = k
  /\ \A i \in DOMAIN mgr[ev'.m].tasks :
       (mgr[ev'.m].tasks[i].k = k /\ mgr[ev'.m].tasks[i].p = ev'.p)
         => ~Live(mgr[ev'.m], ev'.p, mgr[ev'.m].tasks[i].g)

\* the resumed handler may be an iteration of addTracksToAllPeers, whose loop
\* goes on to the entries added to the table since (webrtc.ts:163)
InBroadcast(k) ==
  \E i \in DOMAIN mgr[ev'.m].tasks :
    /\ mgr[ev'.m].tasks[i].k = k /\ mgr[ev'.m].tasks[i].p = ev'.p
    /\ mgr[ev'.m].tasks[i].loop.kind = "tracks"

\* the offers and answers of a to b that the relay holds
Negotiating(bag, a, b) ==
  CopiesIn(Msg("offer", a, b, 0), bag) + CopiesIn(Msg("answer", a, b, 0), bag)

\* C18: when a Session was removed while a negotiation for it was suspended at
\* an awaited step, the remaining steps of that negotiation abort: they send no
\* offer or answer for that remote and put no Session for it back into the
\* table (nor, outside the broadcast loop of addTracksToAllPeers, change a
\* Session created for it since); the awaited transport operation rejects,
\* except the replaceTrack that attachLocalAudio catches.
C18_AbortsAfterRemoval ==
  [][\A k \in SlowSteps :
       ResumedAfterRemoval(k)
         => /\ Negotiating(net', ev'.m, ev'.p) <= Negotiating(net, ev'.m, ev'.p)
            /\ Has(mgr'[ev'.m], ev'.p) <=> Has(mgr[ev'.m], ev'.p)
            /\ (Has(mgr[ev'.m], ev'.p) /\ ~InBroadcast(k))
                 => mgr'[ev'.m].peers[ev'.p] = mgr[ev'.m].peers[ev'.p]
            /\ mgr'[ev'.m].created = mgr[ev'.m].created
            /\ mgr'[ev'.m].open = mgr[ev'.m].open
            /\ (k \notin {"co_attach", "at_attach", "ho_attach"}) => ev'.r = "reject"]_vars

\* C18 witness: an awaited step of an offer or of an answer has settled after
\* its Session was removed
C18_Witness ==
  /\ ev.op \in {"offer_create", "offer_setlocal", "ho_setremote", "ho_answer", "ho_setlocal"}
  /\ ev.r = "reject"
  /\ ~Has(mgr[ev.m], ev.p) /\ mgr[ev.m].notified[ev.p] = 1
  /\ mgr[ev.m].ws

\* C19: when the transport of a Session reports disconnected or failed, or a
\* user-disconnected frame names its remote, the Session is removed from the
\* table, its transport is closed and onPeerDisconnect is raised; the
\* notification is raised once per Session, also when both triggers occur, and
\* by nothing else.
C19_RemovedOnce ==
  [][/\ (Removal(ev') /\ Has(mgr[ev'.m], ev'.p))
          => /\ ~Has(mgr'[ev'.m], ev'.p)
             /\ mgr'[ev'.m].open[ev'.p] = mgr[ev'.m].open[ev'.p] \ {Sess(ev'.m, ev'.p).gen}
             /\ mgr'[ev'.m].notified[ev'.p] = mgr[ev'.m].notified[ev'.p] + 1
     /\ \A pr \in Pairs :
          mgr'[pr[1]].notified[pr[2]] # mgr[pr[1]].notified[pr[2]]
            => /\ Removal(ev') /\ ev'.m = pr[1] /\ ev'.p = pr[2]
               /\ Has(mgr[pr[1]], pr[2])]_vars

\* C19 witness: both triggers have occurred for the one Session that was ever
\* created for the remote, and one notification was raised
C19_Witness ==
  /\ ev.op = "user-disconnected" /\ ev.c = 0
  /\ mgr[ev.m].created[ev.p] = 1 /\ mgr[ev.m].open[ev.p] = {}
  /\ mgr[ev.m].notified[ev.p] = 1 /\ ~Has(mgr[ev.m], ev.p)
  /\ budget.connfail = 0

\* C20: the local identifier is assigned once per connection by the welcome
\* frame and never changes afterwards: it is unset or the identifier of the
\* first welcome also after a later welcome frame, and no Session (whose role
\* is computed from it) exists while it is unset.
C20_AssignedOnce ==
  \A m \in users :
    /\ mgr[m].myId \in {NoId, m}
    /\ mgr[m].myId = NoId => DOMAIN mgr[m].peers = {}

MalformedSteps == MalformedKinds \cup {"bo_attach"}

\* C21: an inbound frame that is unparseable or malformed (unknown type, or an
\* offer, answer or ice-candidate without usable sender or payload) is dropped:
\* handling it creates or removes no Session, changes no Session field and
\* sends no frame.
C21_MalformedDropped ==
  [][ev'.op \in MalformedSteps
       => /\ mgr'[ev'.m].peers = mgr[ev'.m].peers
          /\ net' \sqsubseteq net]_vars

\* the Sessions one broadcast of addTracksToAllPeers has visited so far
Visited(m) ==
  UNION {mgr[m].tasks[i].loop.seen :
           i \in {j \in DOMAIN mgr[m].tasks : mgr[m].tasks[j].loop.kind = "tracks"}}

\* C22: the broadcast over the Session table works on the snapshot taken when
\* it starts: it does not visit a Session that was added while it was suspended.
\* The table holds one Session per remote, so the snapshot does too and no
\* broadcast visits two Sessions of one remote; and a broadcast that alice
\* started before carl joined does not visit a Session for carl.
C22_Snapshot ==
  /\ \A m \in users :
       \A x, y \in Visited(m) : x[1] = y[1] => x = y
  /\ (Alice \in users /\ budget = [Quiet EXCEPT !.stream = 0])
       => \A x \in Visited(Alice) : x[1] # Carl

MicStatus(m, c) == SetToBag({Msg("mic-status", mgr[m].myId, NoId, c)})

\* C23 as stated: every call of toggleMic emits exactly one mic-status frame
\* that carries the new status and is addressed to no individual remote.
C23_AlwaysOne ==
  [][(ev'.op = "toggleMic") => net' = net (+) MicStatus(ev'.m, ev'.c)]_vars

\* C23: a call of toggleMic while the signaling socket is open emits exactly
\* one mic-status frame that carries the new status and is addressed to no
\* individual remote; a call while the socket is not open emits nothing.
C23_OneWhileOpen ==
  [][(ev'.op = "toggleMic")
       => net' = (IF mgr[ev'.m].ws THEN net (+) MicStatus(ev'.m, ev'.c) ELSE net)]_vars

\* C23 witness: the microphone was muted on an open socket, and the one frame
\* with status false and no addressee is on its way
C23_Witness ==
  /\ ev.op = "toggleMic" /\ ev.c = 0 /\ mgr[ev.m].ws
  /\ CopiesIn(Msg("mic-status", ev.m, NoId, 0), net) = 1
  /\ \A x \in BagToSet(net) : x.type = "mic-status" => x.to = NoId

\* the collision test of handleOffer on manager s for remote p
Collides(s, p) == Has(s, p) /\ (s.peers[p].makingOffer \/ s.peers[p].sig # "stable")

Ignores(s, p) == Collides(s, p) /\ ~s.peers[p].isPolite

\* the handleOffer calls of manager s that are under way for its Session for p
Answering(s, p) ==
  {i \in DOMAIN s.tasks :
     s.tasks[i].p = p /\ s.tasks[i].k \in AnswerSteps /\ Live(s, p, s.tasks[i].g)}

Answers(bag) == Restrict(bag, {x \in DOMAIN bag : x.type = "answer"})

\* an inbound offer is discarded without any change exactly when it collides
\* on the impolite side, and is taken up in every other case
C24_TakenOrDiscarded ==
  (ev'.op = "offer")
    => /\ net' = net (-) SetToBag({Msg("offer", ev'.p, ev'.m, 0)})
       /\ IF Ignores(mgr[ev'.m], ev'.p)
          THEN mgr' = mgr
          ELSE Cardinality(Answering(mgr'[ev'.m], ev'.p))
                 = Cardinality(Answering(mgr[ev'.m], ev'.p)) + 1

\* a handleOffer call for a Session that is still in the table, and whose
\* transport was not made to fail, sets the remote description, drains the
\* buffer and ends only by sending the answer to the offer's sender
C24_EndsWithAnswer ==
  /\ (/\ ev'.op \in AnswerSteps
      /\ budget'.fail = budget.fail
      /\ Cardinality(Answering(mgr'[ev'.m], ev'.p))
           < Cardinality(Answering(mgr[ev'.m], ev'.p)))
       => /\ ev'.op = "ho_setlocal" /\ ev'.r = "ok"
          /\ mgr'[ev'.m].peers[ev'.p].remote
          /\ mgr'[ev'.m].peers[ev'.p].pending = <<>>
          /\ net' = net (+) Routed(SetToBag({Msg("answer", ev'.m, ev'.p, 0)}))
  /\ Answers(net') # Answers(net) /\ ev'.op # "answer" => ev'.op \in {"ho_setlocal", "disconnect"}

\* C24: for an inbound offer a collision exists exactly when makingOffer is true
\* or the phase is not stable; on collision an impolite side discards the offer
\* with no state change and no answer; in every other case the offer is set as
\* remote description, the buffer is drained and exactly one answer addressed
\* to the offer's sender is sent.
C24_OfferHandling == [][C24_TakenOrDiscarded /\ C24_EndsWithAnswer]_vars

Offers(bag) == Restrict(bag, {x \in DOMAIN bag : x.type = "offer"})

\* the offer constructions (pc.createOffer() awaited) of manager s for the
\* Session of generation g for remote p
Constructing(s, p, g) ==
  {i \in DOMAIN s.tasks :
     s.tasks[i].k = "offer_create" /\ s.tasks[i].p = p /\ s.tasks[i].g = g}

\* the preconditions createOffer and renegotiate test (webrtc.ts:342, 174-176)
OfferAllowed(peer, broadcast) ==
  ~peer.makingOffer /\ peer.sig = "stable" /\ (broadcast => peer.remote)

\* the calls that attempt an offer without an awaited step before the test
OfferTriggers == {"welcome", "user-connected", "initLocalStream"}

\* an attempt whose preconditions fail sends nothing and changes no Session; an
\* attempt whose preconditions hold changes only makingOffer
C25_SkipIsNoOp ==
  (ev'.op \in OfferTriggers)
    => /\ Offers(net') = Offers(net)
       /\ \A p \in DOMAIN mgr[ev'.m].peers :
            /\ Has(mgr'[ev'.m], p)
            /\ \/ mgr'[ev'.m].peers[p] = mgr[ev'.m].peers[p]
               \/ /\ OfferAllowed(mgr[ev'.m].peers[p], ev'.op = "initLocalStream")
                  /\ mgr'[ev'.m].peers[p]
                       = [mgr[ev'.m].peers[p] EXCEPT !.makingOffer = TRUE]

\* an offer is sent only at the end of a construction, for a Session that is
\* in the stable phase until then, and no construction is started for a Session
\* whose preconditions do not hold at that moment
C25_OnlyWhenAllowed ==
  /\ Offers(net') # Offers(net) /\ ev'.op # "offer"
       => \/ ev'.op = "disconnect"
          \/ ev'.op = "offer_setlocal" /\ mgr[ev'.m].peers[ev'.p].sig = "stable"
  /\ \A m \in users : \A p \in DOMAIN mgr'[m].peers :
       LET g == mgr'[m].peers[p].gen IN
       (Cardinality(Constructing(mgr'[m], p, g)) > Cardinality(Constructing(mgr[m], p, g))
          /\ Live(mgr[m], p, g))
         => OfferAllowed(mgr[m].peers[p], FALSE)

\* C25: an outbound offer is emitted only when its preconditions hold, and
\* otherwise the attempt is a silent no-op that sends nothing and changes no
\* Session flag or phase: createOffer requires makingOffer false and the stable
\* phase, renegotiate also a remote description and the Session in the table.
C25_OfferGate == [][C25_SkipIsNoOp /\ C25_OnlyWhenAllowed]_vars

\* the awaited replaceTrack of attachLocalAudio, by its caller
AttachSteps == {"co_attach", "at_attach", "ho_attach"}

Attaching(s, p) ==
  {i \in DOMAIN s.tasks : s.tasks[i].p = p /\ s.tasks[i].k \in AttachSteps}

C26_OneSender ==
  \A pr \in Pairs : Has(mgr[pr[1]], pr[2]) => Sess(pr[1], pr[2]).senders = 1

\* a Session whose sender carries the local track is not attached again and
\* keeps the track; an attach that settles leaves the number of senders alone
C26_InPlace ==
  \A pr \in Pairs :
    LET m == pr[1]
        p == pr[2]
    IN (Has(mgr[m], p) /\ Has(mgr'[m], p) /\ mgr'[m].peers[p].gen = Sess(m, p).gen)
         => /\ mgr'[m].peers[p].senders = Sess(m, p).senders
            /\ (Sess(m, p).track /\ mgr'[m].stream)
                 => /\ mgr'[m].peers[p].track
                    /\ Cardinality(Attaching(mgr'[m], p)) <= Cardinality(Attaching(mgr[m], p))
            /\ mgr'[m].peers[p].track # Sess(m, p).track
                 => ev'.op \in AttachSteps /\ ev'.m = m /\ ev'.p = p /\ ev'.r = "ok"

\* C26: each Session has exactly one outbound audio sender from its creation to
\* its removal: attachLocalAudio does nothing when the sender carries the
\* desired track and replaces the track in place when it carries another, and
\* after any sequence of attaches, offers, answers and renegotiations the
\* Session still has one sender.
C26_SingleSender == []C26_OneSender /\ [][C26_InPlace]_vars

\* C26 witness: the broadcast replaced the track of a negotiated Session, which
\* has its one sender, now with the local track
C26_Witness ==
  /\ ev.op = "at_attach" /\ ev.r = "ok"
  /\ Has(mgr[ev.m], ev.p)
  /\ Sess(ev.m, ev.p).track /\ Sess(ev.m, ev.p).remote /\ Sess(ev.m, ev.p).local
  /\ Sess(ev.m, ev.p).senders = 1

\* the awaited steps of createOffer between its test and the sending of the offer
OfferSteps == {"co_attach", "offer_create", "offer_setlocal"}

\* C27: while an offer is being constructed for a Session, from the moment the
\* test of makingOffer and phase passes until the offer is sent, the Session's
\* makingOffer is true, and no two constructions for one Session are under way.
C27_FlagHeld ==
  \A pr \in Pairs :
    Has(mgr[pr[1]], pr[2])
      => /\ TasksOf(pr[1], pr[2], OfferSteps) # {} => Sess(pr[1], pr[2]).makingOffer
         /\ Cardinality(TasksOf(pr[1], pr[2], OfferSteps)) <= 1

Unsettled(a, b) ==
  a \in users /\ b \in users /\ Has(mgr[a], b) /\ Sess(a, b).sig # "stable"

\* C28: with no transport failure and every sent frame eventually delivered, a
\* Session that leaves the stable phase eventually returns to it (or is
\* removed): none stays in have-local-offer or have-remote-offer for good.
C28_ReturnsToStable ==
  \A pr \in NamePairs : Unsettled(pr[1], pr[2]) ~> ~Unsettled(pr[1], pr[2])

\* manager m has processed the user-disconnected frame for p: p has left, m was
\* told (it is connected, and the relay tells every connected participant) and
\* the frame is no longer on its way
Departed(m, p) ==
  /\ mgr[p].left /\ mgr[m].ws
  /\ ~BagIn(Msg("user-disconnected", p, m, 0), net)

\* C29: once the user-disconnected frame for a remote has been processed, no
\* Session is created for that remote unless a later welcome or user-connected
\* frame names it: not by a late offer from it, and not by a createOffer for it
\* that was queued or suspended.
C29_StaysRemoved ==
  [][\A pr \in Pairs :
       (Departed(pr[1], pr[2]) /\ ~Has(mgr[pr[1]], pr[2]) /\ Has(mgr'[pr[1]], pr[2]))
         => ev'.op = "user-connected" /\ ev'.m = pr[1] /\ ev'.p = pr[2]]_vars

FramesFrom(m, bag) == Restrict(bag, {x \in DOMAIN bag : x.from = m})

C30_Empty ==
  \A m \in users :
    mgr[m].left => /\ DOMAIN mgr[m].peers = {}
                   /\ \A p \in DOMAIN mgr[m].open : mgr[m].open[p] = {}

C30_Silent ==
  \A m \in users : mgr[m].left => FramesFrom(m, net') \sqsubseteq FramesFrom(m, net)

\* C30: after disconnect() the Session table is empty and stays empty, no
\* transport is open and no further signaling frame is sent: handlers that were
\* suspended at an awaited step when disconnect() ran create no Session or
\* transport afterwards.
C30_AfterDisconnect == []C30_Empty /\ [][C30_Silent]_vars

\* C31: no buffered candidate is passed to addIceCandidate of a Session's
\* transport more than once over the Session's life, also when a drain was left
\* on a failure and a later remote description starts another drain: the
\* candidates handed to one transport are pairwise different.
C31_AppliedOnce ==
  \A pr \in Pairs :
    Has(mgr[pr[1]], pr[2])
      => \A i, j \in DOMAIN Sess(pr[1], pr[2]).handed :
           Sess(pr[1], pr[2]).handed[i] = Sess(pr[1], pr[2]).handed[j] => i = j

\* isMicOn() is true only when a local audio track exists and is enabled
C32_Agrees ==
  \A m \in users : mgr[m].isMicEnabled => (mgr[m].stream /\ mgr[m].trackEnabled)

\* a mic-status frame with status true is sent only when a local audio track
\* exists and is enabled
C32_TrueOnlyEnabled ==
  (ev'.op = "toggleMic" /\ net' = net (+) MicStatus(ev'.m, 1))
    => (mgr'[ev'.m].stream /\ mgr'[ev'.m].trackEnabled)

\* after initLocalStream the track is disabled and isMicOn() is false
C32_OffAfterInit ==
  (ev'.op = "initLocalStream")
    => (mgr'[ev'.m].stream /\ ~mgr'[ev'.m].trackEnabled /\ ~mgr'[ev'.m].isMicEnabled)

\* C32: the recorded mute state agrees with the track: isMicOn() is true only
\* when a local audio track exists and is enabled, a mic-status frame with
\* status true is sent only in that case, and after initLocalStream the
\* microphone is off whatever toggleMic calls were made before it.
C32_MuteState ==
  []C32_Agrees /\ [][C32_TrueOnlyEnabled /\ C32_OffAfterInit]_vars

====
